---- MODULE Spec2Model ----
(***************************************************************************)
(* Model of the model-aware API gateway of src/worker.js: the catalog      *)
(* builder (buildModelProviderMap), the fetch entry point, the chat        *)
(* dispatcher (handleChatCompletionRequest) and the catalog service        *)
(* (handleModelsRequest).                                                  *)
(*                                                                         *)
(* JavaScript runs one handler at a time and a handler only yields at an   *)
(* await.  Each action below is the code that runs between two awaits.     *)
(* A request's fields (path, method, Authorization, body) are drawn where  *)
(* the handler first reads them; nothing reads them earlier, so this is    *)
(* the same set of behaviours as drawing them on arrival.  The handlers    *)
(* in flight carry no identity in the code, so they are kept as a bag.     *)
(***************************************************************************)
EXTENDS Integers, Sequences, FiniteSets, Bags, TLC

\* Number of inbound requests over the process lifetime.
MaxRequests == 2

\* Longest array in a discovery payload handed to the normalizer on its own.
MaxElems == 2

\* JavaScript's undefined / null, for a string-valued slot.
Undefined == "<undefined>"

\* Boolean(v) of a string-valued slot (worker.js:111 filter(Boolean), :190 !modelId).
Truthy(v) == v # Undefined /\ v # ""

-----------------------------------------------------------------------------
(* 1. Configuration                                                        *)

WORKER_API_KEY == "1"

\* Three of the eight descriptors of PROVIDER_CONFIG, in declaration order:
\* the only static one, one with a host of its own, one behind g4f.dev.
ProviderOrder == <<"api.airforce", "anondrop.net", "gemini">>

ProviderIds == {ProviderOrder[i] : i \in 1..Len(ProviderOrder)}

PROVIDER_CONFIG ==
  [p \in ProviderIds |->
    CASE p = "api.airforce" ->
           [name |-> "Airforce API", upstreamHost |-> "api.airforce",
            hasModels |-> TRUE, models |-> <<"gpt-5-mini", "gpt-4o-mini">>,
            modelsPath |-> Undefined, chatPath |-> "/v1/chat/completions"]
      [] p = "anondrop.net" ->
           [name |-> "AnonDrop", upstreamHost |-> "anondrop.net",
            hasModels |-> FALSE, models |-> <<>>,
            modelsPath |-> "/v1/models", chatPath |-> "/v1/chat/completions"]
      [] p = "gemini" ->
           [name |-> "Google Gemini (via g4f)", upstreamHost |-> "g4f.dev",
            hasModels |-> FALSE, models |-> <<>>,
            modelsPath |-> "/api/gemini/models",
            chatPath |-> "/api/gemini/chat/completions"]]

\* IsStatic with the negation of the second conjunct lost.
IsStaticSlip(p) ==
  PROVIDER_CONFIG[p].hasModels /\ Truthy(PROVIDER_CONFIG[p].modelsPath)

\* config.models && !config.modelsPath
IsStatic(p) ==
  PROVIDER_CONFIG[p].hasModels /\ ~Truthy(PROVIDER_CONFIG[p].modelsPath)

\* config.modelsPath, reached only when the static branch did not return
IsDynamic(p) == ~IsStatic(p) /\ Truthy(PROVIDER_CONFIG[p].modelsPath)

-----------------------------------------------------------------------------
(* 2. The JavaScript Map: a sequence of <<key, value>> in insertion order  *)

EmptyMap == <<>>

MapKeys(map) == {map[i][1] : i \in 1..Len(map)}

MapHas(map, k) == k \in MapKeys(map)

MapGet(map, k) == map[CHOOSE i \in 1..Len(map) : map[i][1] = k][2]

\* MapSet as a push onto an array: an existing key gets a second entry.
MapSetPush(map, k, v) == Append(map, <<k, v>>)

\* Map.prototype.set: replaces the value of an existing key in place,
\* appends a new key.
MapSetKeepFirst(map, k, v) ==
  IF MapHas(map, k) THEN map ELSE Append(map, <<k, v>>)

MapSet(map, k, v) ==
  IF MapHas(map, k)
    THEN [i \in 1..Len(map) |-> IF map[i][1] = k THEN <<k, v>> ELSE map[i]]
    ELSE Append(map, <<k, v>>)

\* ModelEntry with the gateway's usual upstream host written out.
ModelEntryFixedHost(p) ==
  [providerId |-> p,
   upstreamHost |-> "g4f.dev",
   chatPath |-> PROVIDER_CONFIG[p].chatPath]

\* The ModelEntry stored for a model of provider p.
ModelEntry(p) ==
  [providerId |-> p,
   upstreamHost |-> PROVIDER_CONFIG[p].upstreamHost,
   chatPath |-> PROVIDER_CONFIG[p].chatPath]

\* models.forEach(modelId => map.set(modelId, {...}))
RECURSIVE Register(_, _, _)
Register(map, p, models) ==
  IF models = <<>> THEN map
  ELSE Register(MapSet(map, Head(models), ModelEntry(p)), p, Tail(models))

-----------------------------------------------------------------------------
(* 3. Model-list payloads and the normalizer                               *)

\* A parsed JSON value as the normalizer sees it.
\*   kind "array" : elems is the array
\*   kind "object": data / models are the fields of that name, each
\*                  [present, isArray, elems]
\*   kind "null"  : JSON null
\* An array element is [isNull, id, name]; id/name are Undefined when the
\* element lacks the field.
NoField == [present |-> FALSE, isArray |-> FALSE, elems |-> <<>>]

ArrField(elems) == [present |-> TRUE, isArray |-> TRUE, elems |-> elems]

Elem(id, name) == [isNull |-> FALSE, id |-> id, name |-> name]

JArray(elems) == [kind |-> "array", elems |-> elems, data |-> NoField, models |-> NoField]

JObject(data, models) == [kind |-> "object", elems |-> <<>>, data |-> data, models |-> models]

JNull == [kind |-> "null", elems |-> <<>>, data |-> NoField, models |-> NoField]

\* Array.prototype.filter(Boolean)
RECURSIVE FilterTruthy(_)
FilterTruthy(s) ==
  IF s = <<>> THEN <<>>
  ELSE IF Truthy(Head(s)) THEN <<Head(s)>> \o FilterTruthy(Tail(s))
  ELSE FilterTruthy(Tail(s))

\* m.id || m.name
IdOrName(m) == IF Truthy(m.id) THEN m.id ELSE m.name

\* Reading a property of null or undefined raises a TypeError.
AnyNull(elems) == \E i \in 1..Len(elems) : elems[i].isNull

\* Lines 109-116: the extracted ids, or a TypeError.
Normalize(data) ==
  IF data.kind = "array" THEN
       IF AnyNull(data.elems) THEN [threw |-> TRUE, models |-> <<>>]
       ELSE [threw |-> FALSE,
             models |-> FilterTruthy([i \in 1..Len(data.elems) |-> IdOrName(data.elems[i])])]
  ELSE IF data.kind = "null" THEN [threw |-> TRUE, models |-> <<>>]
  ELSE IF data.data.present /\ data.data.isArray THEN
       IF AnyNull(data.data.elems) THEN [threw |-> TRUE, models |-> <<>>]
       ELSE [threw |-> FALSE,
             models |-> FilterTruthy([i \in 1..Len(data.data.elems) |-> data.data.elems[i].id])]
  ELSE IF data.models.present /\ data.models.isArray THEN
       IF AnyNull(data.models.elems) THEN [threw |-> TRUE, models |-> <<>>]
       ELSE [threw |-> FALSE,
             models |-> FilterTruthy([i \in 1..Len(data.models.elems) |-> data.models.elems[i].name])]
  ELSE [threw |-> FALSE, models |-> <<>>]

\* Bodies a discovery endpoint answers with.  parses = FALSE: response.json()
\* rejects.  The first list names a model of the static provider.
DiscoveryBodies ==
  { [parses |-> FALSE, json |-> JNull],
    [parses |-> TRUE, json |-> JArray(<<Elem("m1", Undefined), Elem(Undefined, "gpt-4o-mini")>>)],
    [parses |-> TRUE, json |-> JObject(ArrField(<<Elem("m1", "x"), Elem(Undefined, "y")>>), NoField)] }

-----------------------------------------------------------------------------
(* 4. Inbound requests and upstream answers                                *)

Paths == {"/v1/models", "/v1/chat/completions", "/", "/favicon.ico"}

Methods == {"GET", "POST"}

\* request.headers.get('Authorization'): absent, the right value, a wrong one.
AuthHeaders == {Undefined, "Bearer 1", "Bearer 2"}

\* A request body as text: wellFormed says whether it is JSON, pretty whether
\* it carries insignificant whitespace, value is the JSON value it denotes.
RawBody(wellFormed, pretty, model) ==
  [wellFormed |-> wellFormed, pretty |-> pretty, value |-> [model |-> model]]

InboundBodies ==
  { RawBody(FALSE, FALSE, Undefined),
    RawBody(TRUE, FALSE, Undefined),
    RawBody(TRUE, FALSE, ""),
    RawBody(TRUE, TRUE, "gpt-4o-mini"),
    RawBody(TRUE, FALSE, "m1") }

\* Bodies drawn for a request that is answered before its body is read: one
\* that is not JSON and one that names a model of the static provider.
UnreadBodies ==
  { RawBody(FALSE, FALSE, Undefined), RawBody(TRUE, TRUE, "gpt-4o-mini") }

\* What stands in a record for a body that nothing reads.
NoBody == RawBody(TRUE, FALSE, Undefined)

\* request.json(): the value, or a SyntaxError.
JSONparse(raw) == [threw |-> ~raw.wellFormed, value |-> raw.value]

\* JSON.stringify(value): the compact text of the value.
JSONstringify(value) == [wellFormed |-> TRUE, pretty |-> FALSE, value |-> value]

\* Status codes an upstream chat endpoint answers with.
UpstreamStatuses == {200, 500}

\* The header set of lines 203-208.
OutboundHeaders ==
  { <<"Content-Type", "application/json">>, <<"Accept", "*/*">>,
    <<"Origin", "https://g4f.dev">>, <<"Referer", "https://g4f.dev/">>,
    <<"User-Agent", "Mozilla/5.0">> }

\* Status of the answer the runtime gives when the handler's promise rejects.
UncaughtStatus == 500

-----------------------------------------------------------------------------
(* 5. State                                                                *)

VARIABLES
  MODEL_PROVIDER_MAP,  \* the process-wide table reference (line 76)
  handlers,            \* bag of the fetch handlers suspended at an await
  arrived,             \* number of requests received so far
  gets,                \* per provider: discovery GETs issued so far
  entered,             \* number of times buildModelProviderMap was entered
  assigned,            \* number of assignments to MODEL_PROVIDER_MAP (line 128)
  published,           \* the settled build behind the most recent assignment
  served               \* the most recent response, with the request it answers,
                       \* the table its handler looked at (Null when the
                       \* handler returned without looking at it) and the
                       \* outcome of its upstream call
VARIABLES
  payload,             \* the value of `data` at line 106 when the normalizer
                       \* of lines 109-116 is run on its own
  normalized           \* what lines 109-116 made of payload

vars == <<MODEL_PROVIDER_MAP, handlers, arrived, gets, entered, assigned, published, served,
         payload, normalized>>

Null == [isNull |-> TRUE, entries |-> EmptyMap]

Table(map) == [isNull |-> FALSE, entries |-> map]

\* A provider's callback in a build: where it stands, whether it ended in the
\* catch block, the ids it registered, and rank: 0 while it has registered
\* nothing, else the position of its registration pass among those of the
\* build.
IdleTask == [pc |-> "idle", caught |-> FALSE, models |-> <<>>, rank |-> 0]

\* A suspended handler.  pc says at which await:
\*   "building": line 142, inside a run of buildModelProviderMap whose local
\*               map is map and whose per-provider callbacks are task
\*   "json"    : line 187, request.json()
\*   "upstream": line 218, the upstream call sent, made while reading table
\* cold: the request arrived while the table reference was null.
\* method, auth, body: the request's fields, once the handler has read them.
Handler(pc, cold, method, auth, body, map, task, sent, table) ==
  [pc |-> pc, cold |-> cold, method |-> method, auth |-> auth, body |-> body,
   map |-> map, task |-> task, sent |-> sent, table |-> table]

NoTasks == [p \in ProviderIds |-> IdleTask]

NoBuild == [done |-> FALSE, task |-> NoTasks]

Pending == BagToSet(handlers)

Without(h) == handlers (-) SetToBag({h})

\* In served.upstream: the handler made no upstream call that settled.
NoOutcome == -1

NoneServed ==
  [cold |-> FALSE, path |-> "/", method |-> "GET", auth |-> Undefined,
   body |-> NoBody, status |-> 0, threw |-> FALSE, sent |-> <<>>, data |-> <<>>,
   table |-> Null, upstream |-> NoOutcome]

\* The normalizer has not run.
NotNormalized == [ran |-> FALSE, threw |-> FALSE, models |-> <<>>]

Init ==
  /\ MODEL_PROVIDER_MAP = Null
  /\ handlers = EmptyBag
  /\ arrived = 0
  /\ gets = [p \in ProviderIds |-> 0]
  /\ entered = 0
  /\ assigned = 0
  /\ published = NoBuild
  /\ served = NoneServed
  /\ payload = JNull
  /\ normalized = NotNormalized

-----------------------------------------------------------------------------
(* 6. buildModelProviderMap                                                *)

\* The part of one provider's callback that runs before its first await
\* (lines 87-102): a static provider registers and returns, a dynamic one
\* issues its GET.
TaskStart(p) ==
  IF IsStatic(p) THEN [pc |-> "done", caught |-> FALSE, models |-> PROVIDER_CONFIG[p].models,
                       rank |-> CHOOSE i \in 1..Len(ProviderOrder) : ProviderOrder[i] = p]
  ELSE IF IsDynamic(p) THEN [pc |-> "fetching", caught |-> FALSE, models |-> <<>>, rank |-> 0]
  ELSE [pc |-> "done", caught |-> FALSE, models |-> <<>>, rank |-> 0]

\* The map after the callbacks of the providers in order ran to their first
\* await (Object.entries(...).map(async ...), lines 86-94).
RECURSIVE StartMap(_, _)
StartMap(map, order) ==
  IF order = <<>> THEN map
  ELSE StartMap(IF IsStatic(Head(order))
                  THEN Register(map, Head(order), PROVIDER_CONFIG[Head(order)].models)
                  ELSE map,
                Tail(order))

\* Lines 83-102, 127, 142: a fresh map, every callback started, the handler
\* waiting for all of them.
StartBuild ==
  Handler("building", TRUE, "GET", Undefined, NoBody,
          StartMap(EmptyMap, ProviderOrder),
          [p \in ProviderIds |-> TaskStart(p)], <<>>, Null)

\* The discovery GETs that entering the builder issues (line 99).
IssueGets(g) == [p \in ProviderIds |-> IF IsDynamic(p) THEN g[p] + 1 ELSE g[p]]

\* AllSettled that waits for every callback to end outside its catch block.
AllSettledFulfilled(b) ==
  \A p \in ProviderIds : b.task[p].pc = "done" /\ ~b.task[p].caught

\* AllSettled as Promise.any: one discovery callback has settled.
AllSettledAny(b) == \E p \in ProviderIds : IsDynamic(p) /\ b.task[p].pc = "done"

\* await Promise.allSettled(fetchPromises): every callback has settled.
AllSettled(b) == \A p \in ProviderIds : b.task[p].pc = "done"

\* Caught with a catch block that also discards what the build has gathered.
CaughtClears(b, p) ==
  [b EXCEPT !.task[p] = [pc |-> "done", caught |-> TRUE, models |-> <<>>, rank |-> 0],
            !.map = EmptyMap]

\* Lines 122-124: the catch block; the callback fulfils having registered
\* nothing.
Caught(b, p) ==
  [b EXCEPT !.task[p] = [pc |-> "done", caught |-> TRUE, models |-> <<>>, rank |-> 0]]

\* The position the next registration pass of build b takes.
NextRank(b) ==
  1 + (CHOOSE m \in {b.task[q].rank : q \in ProviderIds} :
         \A q \in ProviderIds : b.task[q].rank <= m)

\* Parsed with the static lists registered again after the discovered ones.
ParsedStaticLast(b, p, body) ==
  IF ~body.parses \/ Normalize(body.json).threw THEN Caught(b, p)
  ELSE [b EXCEPT !.map = StartMap(Register(b.map, p, Normalize(body.json).models),
                                  ProviderOrder),
                 !.task[p] = [pc |-> "done", caught |-> FALSE,
                              models |-> Normalize(body.json).models,
                              rank |-> NextRank(b)]]

\* Lines 106-120 once response.json() has settled with body.
Parsed(b, p, body) ==
  IF ~body.parses \/ Normalize(body.json).threw THEN Caught(b, p)
  ELSE [b EXCEPT !.map = Register(b.map, p, Normalize(body.json).models),
                 !.task[p] = [pc |-> "done", caught |-> FALSE,
                              models |-> Normalize(body.json).models,
                              rank |-> NextRank(b)]]

-----------------------------------------------------------------------------
(* 7. The request handlers                                                 *)

\* handleModelsRequest with the test of line 237 inverted.
handleModelsRequestInverted(table) ==
  IF ~table.isNull THEN [status |-> 503, data |-> <<>>]
  ELSE [status |-> 200, data |-> <<>>]

\* Lines 236-250.  status 200 is the default of new Response.
handleModelsRequest(table) ==
  IF table.isNull THEN [status |-> 503, data |-> <<>>]
  ELSE [status |-> 200,
        data |-> [i \in 1..Len(table.entries) |->
                    [id |-> table.entries[i][1], object |-> "model",
                     owned_by |-> table.entries[i][2].providerId]]]

\* The value the dispatcher compares the Authorization header with (line 183).
Bearer == "Bearer " \o WORKER_API_KEY

\* ChatPrecheck with && for the || of line 183.
ChatPrecheckAnd(method, auth) ==
  IF method # "POST" THEN 405
  ELSE IF ~Truthy(auth) /\ auth # Bearer THEN 401
  ELSE 0

\* ChatPrecheck with the Authorization test made before the method test.
ChatPrecheckAuthFirst(method, auth) ==
  IF ~Truthy(auth) \/ auth # Bearer THEN 401
  ELSE IF method # "POST" THEN 405
  ELSE 0

\* Lines 178-185: the checks made before the body is read; 0 when both pass.
ChatPrecheck(method, auth) ==
  IF method # "POST" THEN 405
  ELSE IF ~Truthy(auth) \/ auth # Bearer THEN 401
  ELSE 0

\* UpstreamRequest with the chat path written out instead of read from the
\* table entry.
UpstreamRequestFixedPath(providerInfo, requestBody) ==
  [method |-> "POST",
   url |-> [scheme |-> "https", host |-> providerInfo.upstreamHost,
            path |-> "/v1/chat/completions"],
   headers |-> OutboundHeaders,
   body |-> JSONstringify(requestBody)]

\* UpstreamRequest that relays the caller's Authorization header.
UpstreamRequestRelaysAuth(providerInfo, requestBody) ==
  [method |-> "POST",
   url |-> [scheme |-> "https", host |-> providerInfo.upstreamHost,
            path |-> providerInfo.chatPath],
   headers |-> OutboundHeaders \cup { <<"Authorization", Bearer>> },
   body |-> JSONstringify(requestBody)]

\* Lines 200-215: the request sent upstream for a resolved model.
UpstreamRequest(providerInfo, requestBody) ==
  [method |-> "POST",
   url |-> [scheme |-> "https", host |-> providerInfo.upstreamHost,
            path |-> providerInfo.chatPath],
   headers |-> OutboundHeaders,
   body |-> JSONstringify(requestBody)]

\* ChatResolve without the test of line 196: destructuring the missing entry
\* at line 200 throws.
ChatResolveNoLookupTest(raw, table) ==
  IF JSONparse(raw).threw
    THEN [status |-> UncaughtStatus, threw |-> TRUE, sent |-> <<>>]
  ELSE IF ~Truthy(JSONparse(raw).value.model)
    THEN [status |-> 400, threw |-> FALSE, sent |-> <<>>]
  ELSE IF ~MapHas(table.entries, JSONparse(raw).value.model)
    THEN [status |-> UncaughtStatus, threw |-> TRUE, sent |-> <<>>]
  ELSE [status |-> 0, threw |-> FALSE,
        sent |-> <<UpstreamRequest(MapGet(table.entries, JSONparse(raw).value.model),
                                   JSONparse(raw).value)>>]

\* Lines 187-218 once request.json() has settled: the status answered at
\* once (0 when the request goes upstream), whether the handler threw, and
\* the upstream requests issued.
ChatResolve(raw, table) ==
  IF JSONparse(raw).threw
    THEN [status |-> UncaughtStatus, threw |-> TRUE, sent |-> <<>>]
  ELSE IF ~Truthy(JSONparse(raw).value.model)
    THEN [status |-> 400, threw |-> FALSE, sent |-> <<>>]
  ELSE IF ~MapHas(table.entries, JSONparse(raw).value.model)
    THEN [status |-> 404, threw |-> FALSE, sent |-> <<>>]
  ELSE [status |-> 0, threw |-> FALSE,
        sent |-> <<UpstreamRequest(MapGet(table.entries, JSONparse(raw).value.model),
                                   JSONparse(raw).value)>>]

\* RelayStatus that answers a network-level failure as a success.
RelayStatusMasks(outcome) == IF outcome = 0 THEN 200 ELSE outcome

\* Lines 218-230: the status relayed for the outcome of the upstream call;
\* outcome 0 is a network-level failure.
RelayStatus(outcome) == IF outcome = 0 THEN 502 ELSE outcome

\* A handler returns: its request is answered, rest are the handlers left.
Respond(rest, cold, path, method, auth, body, status, threw, sent, data, table) ==
  /\ handlers' = rest
  /\ served' = [cold |-> cold, path |-> path, method |-> method,
                auth |-> auth, body |-> body, status |-> status, threw |-> threw,
                sent |-> sent, data |-> data, table |-> table, upstream |-> NoOutcome]

\* Lines 147-165 and the dispatcher up to its first await, for a request
\* reading table; rest are the other handlers.
Route(rest, cold, table) ==
  \E path \in Paths :
    \/ /\ path = "/v1/models"
       /\ Respond(rest, cold, path, "GET", Undefined, NoBody,
                  handleModelsRequest(table).status, FALSE, <<>>,
                  handleModelsRequest(table).data, table)
    \/ /\ path = "/v1/chat/completions"
       /\ \E method \in Methods, auth \in AuthHeaders :
            IF ChatPrecheck(method, auth) # 0
              THEN \E body \in UnreadBodies :
                     Respond(rest, cold, path, method, auth, body,
                             ChatPrecheck(method, auth), FALSE, <<>>, <<>>, Null)
              ELSE /\ handlers' = rest (+)
                          SetToBag({Handler("json", cold, method, auth, NoBody,
                                            EmptyMap, NoTasks, <<>>, Null)})
                   /\ UNCHANGED served
    \/ /\ path = "/"
       /\ Respond(rest, cold, path, "GET", Undefined, NoBody, 200, FALSE, <<>>, <<>>, Null)
    \/ /\ path \notin {"/v1/models", "/v1/chat/completions", "/"}
       /\ Respond(rest, cold, path, "GET", Undefined, NoBody, 404, FALSE, <<>>, <<>>, Null)

\* Unbuilt that never finds the table built.
UnbuiltAlways(table) == TRUE

\* Line 140: the test the entry point makes before building.
Unbuilt(table) == table.isNull

\* A request arrives while the table is built (lines 138-166).
FetchWarm ==
  /\ arrived < MaxRequests
  /\ ~Unbuilt(MODEL_PROVIDER_MAP)
  /\ arrived' = arrived + 1
  /\ Route(handlers, FALSE, MODEL_PROVIDER_MAP)
  /\ UNCHANGED <<MODEL_PROVIDER_MAP, gets, entered, assigned, published>>
  /\ UNCHANGED <<payload, normalized>>

\* A request arrives while the table is unbuilt: it enters the builder and
\* waits for it (lines 140-142, 83-127).
FetchCold ==
  /\ arrived < MaxRequests
  /\ Unbuilt(MODEL_PROVIDER_MAP)
  /\ arrived' = arrived + 1
  /\ entered' = entered + 1
  /\ gets' = IssueGets(gets)
  /\ handlers' = handlers (+) SetToBag({StartBuild})
  /\ UNCHANGED <<MODEL_PROVIDER_MAP, assigned, published, served>>
  /\ UNCHANGED <<payload, normalized>>

\* A callback of the build of handler h has settled, leaving the build as b.
\* When it was the last one, Promise.allSettled resolves, the builder
\* publishes its map and returns (lines 127-129) and the request that awaited
\* it goes on at line 147, all before any other event is handled.
Settled(h, b) ==
  IF AllSettled(b)
    THEN /\ MODEL_PROVIDER_MAP' = Table(b.map)
         /\ assigned' = assigned + 1
         /\ published' = [done |-> TRUE, task |-> b.task]
         /\ Route(Without(h), b.cold, Table(b.map))
    ELSE /\ handlers' = Without(h) (+) SetToBag({b})
         /\ UNCHANGED <<MODEL_PROVIDER_MAP, assigned, published, served>>

\* The GET of provider p in the build of handler h settles: a network error,
\* a non-success status, or a success whose body is then read (lines 99-106).
DiscoveryFetchSettles(h, p) ==
  /\ h.pc = "building"
  /\ h.task[p].pc = "fetching"
  /\ \E outcome \in {"error", "notok", "ok"} :
       IF outcome = "ok"
         THEN /\ handlers' = Without(h) (+) SetToBag({[h EXCEPT !.task[p].pc = "parsing"]})
              /\ UNCHANGED <<MODEL_PROVIDER_MAP, assigned, published, served>>
         ELSE Settled(h, Caught(h, p))
  /\ UNCHANGED <<arrived, gets, entered>>
  /\ UNCHANGED <<payload, normalized>>

\* response.json() of provider p in the build of handler h settles
\* (lines 106-120).
DiscoveryJsonSettles(h, p) ==
  /\ h.pc = "building"
  /\ h.task[p].pc = "parsing"
  /\ \E body \in DiscoveryBodies : Settled(h, Parsed(h, p, body))
  /\ UNCHANGED <<arrived, gets, entered>>
  /\ UNCHANGED <<payload, normalized>>

\* request.json() of the chat request of handler h settles (lines 187-218).
BodyJsonSettles(h) ==
  /\ h.pc = "json"
  /\ \E body \in InboundBodies :
       LET res == ChatResolve(body, MODEL_PROVIDER_MAP) IN
         IF res.status # 0
           THEN Respond(Without(h), h.cold, "/v1/chat/completions", h.method, h.auth,
                        body, res.status, res.threw, res.sent, <<>>, MODEL_PROVIDER_MAP)
           ELSE /\ handlers' = Without(h) (+)
                       SetToBag({[h EXCEPT !.pc = "upstream", !.body = body,
                                           !.sent = res.sent,
                                           !.table = MODEL_PROVIDER_MAP]})
                /\ UNCHANGED served
  /\ UNCHANGED <<MODEL_PROVIDER_MAP, arrived, gets, entered, assigned, published>>
  /\ UNCHANGED <<payload, normalized>>

\* The upstream chat call of handler h settles (lines 218-230).
UpstreamSettles(h) ==
  /\ h.pc = "upstream"
  /\ \E outcome \in UpstreamStatuses \cup {0} :
       /\ handlers' = Without(h)
       /\ served' = [cold |-> h.cold, path |-> "/v1/chat/completions",
                     method |-> h.method, auth |-> h.auth, body |-> h.body,
                     status |-> RelayStatus(outcome), threw |-> FALSE,
                     sent |-> h.sent, data |-> <<>>, table |-> h.table,
                     upstream |-> outcome]
  /\ UNCHANGED <<MODEL_PROVIDER_MAP, arrived, gets, entered, assigned, published>>
  /\ UNCHANGED <<payload, normalized>>

Next ==
  \/ FetchWarm
  \/ FetchCold
  \/ \E h \in Pending, p \in ProviderIds : DiscoveryFetchSettles(h, p)
  \/ \E h \in Pending, p \in ProviderIds : DiscoveryJsonSettles(h, p)
  \/ \E h \in Pending : BodyJsonSettles(h)
  \/ \E h \in Pending : UpstreamSettles(h)

Spec == Init /\ [][Next]_vars

\* Every call the gateway awaits settles in the end: the discovery GETs and
\* the reads of their bodies, the read of the inbound body, the chat forward.
Fairness ==
  /\ WF_vars(\E h \in Pending, p \in ProviderIds : DiscoveryFetchSettles(h, p))
  /\ WF_vars(\E h \in Pending, p \in ProviderIds : DiscoveryJsonSettles(h, p))
  /\ WF_vars(\E h \in Pending : BodyJsonSettles(h))
  /\ WF_vars(\E h \in Pending : UpstreamSettles(h))

LiveSpec == Spec /\ Fairness

-----------------------------------------------------------------------------
(* 7b. The normalizer of lines 109-116 on its own                          *)

\* A null array element.
NullElem == [isNull |-> TRUE, id |-> Undefined, name |-> Undefined]

\* A field that is present and truthy but not an array.
ScalarField == [present |-> TRUE, isArray |-> FALSE, elems |-> <<>>]

ElemValues == {NullElem} \cup {Elem(id, name) : id \in {Undefined, "a"}, name \in {Undefined, "b"}}

Arrays == UNION {[1..n -> ElemValues] : n \in 0..MaxElems}

Fields == {NoField, ScalarField} \cup {ArrField(a) : a \in Arrays}

\* The JSON values a discovery endpoint can answer with.
Payloads ==
  {JNull} \cup {JArray(a) : a \in Arrays} \cup {JObject(d, m) : d \in Fields, m \in Fields}

NormInit ==
  /\ MODEL_PROVIDER_MAP = Null
  /\ handlers = EmptyBag
  /\ arrived = 0
  /\ gets = [p \in ProviderIds |-> 0]
  /\ entered = 0
  /\ assigned = 0
  /\ published = NoBuild
  /\ served = NoneServed
  /\ payload \in Payloads
  /\ normalized = NotNormalized

\* Lines 109-116 run on payload.
Normalizes ==
  /\ ~normalized.ran
  /\ normalized' = [ran |-> TRUE, threw |-> Normalize(payload).threw,
                     models |-> Normalize(payload).models]
  /\ UNCHANGED <<MODEL_PROVIDER_MAP, handlers, arrived, gets, entered, assigned,
                 published, served, payload>>

NormNext == Normalizes

NormSpec == NormInit /\ [][NormNext]_vars

-----------------------------------------------------------------------------
(* 8. Properties                                                           *)

\* Vocabulary of the properties, written without the operators of the model.
StaticProviders ==
  {p \in ProviderIds : PROVIDER_CONFIG[p].hasModels /\ PROVIDER_CONFIG[p].modelsPath = Undefined}

DynamicProviders == {p \in ProviderIds : PROVIDER_CONFIG[p].modelsPath # Undefined}

Range(seq) == {seq[i] : i \in 1..Len(seq)}

Answered == served.status # 0

ChatAnswered == Answered /\ served.path = "/v1/chat/completions"

ModelsAnswered == Answered /\ served.path = "/v1/models"

AuthorizedPost(x) == x.method = "POST" /\ x.auth = "Bearer 1"

\* The request names, in a body that is JSON, a non-empty model.
NamesModel(x) == x.body.wellFormed /\ x.body.value.model \notin {Undefined, ""}

\* C1: buildModelProviderMap is entered at most once over the process
\* lifetime, so every provider receives at most one discovery GET, however
\* many requests arrive while the table is unbuilt.
C1_SingleBuild == entered <= 1 /\ \A p \in ProviderIds : gets[p] <= 1

\* C2: whichever providers fail discovery, a build that has settled has
\* published a table, and the table has every model id registered by every
\* provider that did not fail; no build stays unpublished once all its
\* callbacks have settled.
C2_PartialFailure ==
  /\ \A h \in Pending : h.pc = "building" => \E p \in ProviderIds : h.task[p].pc # "done"
  /\ published.done =>
       /\ ~MODEL_PROVIDER_MAP.isNull
       /\ \A p \in ProviderIds :
            ~published.task[p].caught =>
              Range(published.task[p].models) \subseteq MapKeys(MODEL_PROVIDER_MAP.entries)

C2_Witness ==
  /\ published.done
  /\ published.task["anondrop.net"].caught
  /\ ~published.task["gemini"].caught
  /\ published.task["gemini"].models # <<>>
  /\ "m1" \in MapKeys(MODEL_PROVIDER_MAP.entries)

\* C3 as claimed: after a build every id of a static provider's list is a key
\* of the table owned by that provider, with no network call for it, whatever
\* the dynamic providers return.
C3_StaticOwned ==
  ~MODEL_PROVIDER_MAP.isNull =>
    \A p \in StaticProviders :
      /\ gets[p] = 0
      /\ \A id \in Range(PROVIDER_CONFIG[p].models) :
           /\ id \in MapKeys(MODEL_PROVIDER_MAP.entries)
           /\ MapGet(MODEL_PROVIDER_MAP.entries, id).providerId = p

\* C3 as amended: after a build every id of a static provider's list is a key
\* of the table, no network call was issued for that provider, and the entry
\* is owned by that provider unless a dynamic provider whose discovery
\* succeeded in that build returned the same id, which then owns it.
C3_StaticKept ==
  ~MODEL_PROVIDER_MAP.isNull =>
    \A p \in StaticProviders :
      /\ gets[p] = 0
      /\ \A id \in Range(PROVIDER_CONFIG[p].models) :
           /\ id \in MapKeys(MODEL_PROVIDER_MAP.entries)
           /\ \/ MapGet(MODEL_PROVIDER_MAP.entries, id).providerId = p
              \/ \E q \in DynamicProviders :
                   /\ ~published.task[q].caught
                   /\ id \in Range(published.task[q].models)
                   /\ MapGet(MODEL_PROVIDER_MAP.entries, id).providerId = q

C3_Witness ==
  /\ ~MODEL_PROVIDER_MAP.isNull
  /\ MapGet(MODEL_PROVIDER_MAP.entries, "gpt-5-mini").providerId = "api.airforce"
  /\ MapGet(MODEL_PROVIDER_MAP.entries, "gpt-4o-mini").providerId = "gemini"

\* What C4 asks of the upstream requests sent for a request x that resolved
\* its model in table.
ForwardedRight(x, table, sent) ==
  LET entry == MapGet(table.entries, x.body.value.model) IN
    /\ Len(sent) = 1
    /\ sent[1].method = "POST"
    /\ sent[1].url = [scheme |-> "https", host |-> entry.upstreamHost, path |-> entry.chatPath]
    /\ entry.upstreamHost = PROVIDER_CONFIG[entry.providerId].upstreamHost
    /\ entry.chatPath = PROVIDER_CONFIG[entry.providerId].chatPath
    /\ sent[1].body.wellFormed
    /\ sent[1].body.value = x.body.value

C6_UnknownModel ==
  (/\ ChatAnswered
   /\ AuthorizedPost(served)
   /\ NamesModel(served)
   /\ served.body.value.model \notin MapKeys(served.table.entries))
    => (served.status = 404 /\ served.sent = <<>>)

C6_Witness ==
  /\ ChatAnswered
  /\ AuthorizedPost(served)
  /\ served.body.value.model = "m1"
  /\ served.status = 404

\* C7 as claimed: a GET /v1/models received before the first build has
\* completed is answered 503.
C7_ColdModels503 == (ModelsAnswered /\ served.cold) => served.status = 503

\* C7 as amended: a GET /v1/models received before the first build has
\* completed is answered only after the build it started has published its
\* table, and then with 200 and the list of that table; /v1/models is never
\* answered 503.
C7_ColdModelsWait ==
  ModelsAnswered =>
    /\ served.status = 200
    /\ ~served.table.isNull
    /\ assigned >= 1
    /\ Len(served.data) = Len(served.table.entries)

C7_Witness == ModelsAnswered /\ served.cold /\ served.status = 200 /\ Len(served.data) >= 2

\* C8: a model list answered by /v1/models has exactly one entry per key of
\* the table it was read from, with pairwise distinct ids, each owned_by being
\* the providerId stored for the id and a key of the provider registry, and
\* no upstream request is made to produce it.
C8_ModelList ==
  (ModelsAnswered /\ served.status = 200) =>
    /\ Len(served.data) = Cardinality(MapKeys(served.table.entries))
    /\ \A i, j \in 1..Len(served.data) : served.data[i].id = served.data[j].id => i = j
    /\ \A i \in 1..Len(served.data) :
         /\ served.data[i].id \in MapKeys(served.table.entries)
         /\ served.data[i].owned_by = MapGet(served.table.entries, served.data[i].id).providerId
         /\ served.data[i].owned_by \in ProviderIds
         /\ served.data[i].object = "model"
    /\ served.sent = <<>>

C8_Witness ==
  /\ ModelsAnswered
  /\ served.status = 200
  /\ Len(served.data) = 3
  /\ \E i \in 1..Len(served.data) :
       served.data[i].id = "gpt-4o-mini" /\ served.data[i].owned_by = "anondrop.net"

C10_MalformedIs400 ==
  (ChatAnswered /\ AuthorizedPost(served) /\ ~served.body.wellFormed)
    => (served.status = 400 /\ ~served.threw /\ served.sent = <<>>)

-----------------------------------------------------------------------------
(* Properties of the table's lifecycle and of the build's ordering         *)

\* C11: the table reference goes from unbuilt to a table exactly once: once
\* a table is published the reference is never assigned again and the table
\* that dispatch and list calls observe never changes.
C11_Frozen ==
  [][~MODEL_PROVIDER_MAP.isNull =>
       (MODEL_PROVIDER_MAP' = MODEL_PROVIDER_MAP /\ assigned' = assigned)]_vars

\* What C12 asks of a map built from the callbacks task: every entry carries
\* the host and chat path of the provider it names, and that provider did not
\* fail and registered the id.
EntriesSound(map, task) ==
  \A i \in 1..Len(map) :
    LET id == map[i][1]
        entry == map[i][2] IN
      /\ entry.providerId \in ProviderIds
      /\ entry.upstreamHost = PROVIDER_CONFIG[entry.providerId].upstreamHost
      /\ entry.chatPath = PROVIDER_CONFIG[entry.providerId].chatPath
      /\ ~task[entry.providerId].caught
      /\ task[entry.providerId].pc = "done"
      /\ id \in Range(task[entry.providerId].models)

\* C12: in every published table, and in the map of every build under way,
\* each entry's (upstreamHost, chatPath) is the pair of the provider named by
\* its providerId, and no entry names a provider whose discovery failed in
\* that build: a failing provider contributes no entry at all.
C12_EntriesSound ==
  /\ \A h \in Pending : h.pc = "building" => EntriesSound(h.map, h.task)
  /\ published.done =>
       /\ EntriesSound(MODEL_PROVIDER_MAP.entries, published.task)
       /\ \A p \in ProviderIds :
            published.task[p].caught =>
              \A i \in 1..Len(MODEL_PROVIDER_MAP.entries) :
                MODEL_PROVIDER_MAP.entries[i][2].providerId # p

C12_Witness ==
  /\ published.done
  /\ published.task["gemini"].caught
  /\ ~published.task["anondrop.net"].caught
  /\ "m1" \in MapKeys(MODEL_PROVIDER_MAP.entries)
  /\ MapGet(MODEL_PROVIDER_MAP.entries, "m1").upstreamHost = "anondrop.net"

\* C13: a build issues every provider's discovery query on entry, before it
\* waits on any, and publishes only when every provider's callback has
\* settled; so a table that a request reads misses the registrations of no
\* provider that is still pending.
C13_FanOutThenJoin ==
  /\ \A p \in DynamicProviders : gets[p] = entered
  /\ \A h \in Pending : h.pc = "building" =>
       \A p \in DynamicProviders : h.task[p].pc \in {"fetching", "parsing", "done"}
  /\ ~MODEL_PROVIDER_MAP.isNull =>
       (published.done /\ \A p \in ProviderIds : published.task[p].pc = "done")
  /\ (Answered /\ ~served.table.isNull) => published.done
  /\ \A h \in Pending : h.pc \in {"json", "upstream"} => ~MODEL_PROVIDER_MAP.isNull

C13_Witness ==
  /\ published.done
  /\ Answered
  /\ served.cold
  /\ ~served.table.isNull
  /\ \A p \in DynamicProviders : ~published.task[p].caught
  /\ \E h \in Pending : h.pc = "building"

-----------------------------------------------------------------------------
(* Properties of the upstream call                                         *)

\* C14: a dispatched chat request is answered 502 when the upstream call
\* fails at network level, and with the upstream's own status code, whatever
\* it is, when the upstream call completes with an HTTP response.
C14_Relay ==
  (ChatAnswered /\ served.upstream # NoOutcome) =>
    /\ served.sent # <<>>
    /\ served.upstream = 0 => served.status = 502
    /\ served.upstream # 0 => served.status = served.upstream

C14_Witness ==
  /\ ChatAnswered
  /\ served.sent # <<>>
  /\ served.upstream = 0
  /\ served.status = 502

\* The upstream requests in flight or answered, each with the inbound
\* request it was built for and the table it was resolved in.
Dispatched ==
  {[auth |-> h.auth, body |-> h.body, table |-> h.table, sent |-> h.sent] :
     h \in {g \in Pending : g.pc = "upstream"}}
  \cup (IF ChatAnswered /\ served.sent # <<>>
          THEN {[auth |-> served.auth, body |-> served.body,
                 table |-> served.table, sent |-> served.sent]}
          ELSE {})

-----------------------------------------------------------------------------
(* Properties of colliding registrations                                   *)

\* The providers that registered id in a build with callbacks task.
Registrants(task, id) ==
  {p \in ProviderIds : task[p].pc = "done" /\ ~task[p].caught /\ id \in Range(task[p].models)}

\* The registrant of id whose registration ran last.
LastRegistrant(task, id) ==
  CHOOSE p \in Registrants(task, id) :
    \A q \in Registrants(task, id) : task[q].rank <= task[p].rank

\* What C17 asks of a map built from the callbacks task.
LastWriterWins(map, task) ==
  \A id \in MapKeys(map) :
    /\ Cardinality({i \in 1..Len(map) : map[i][1] = id}) = 1
    /\ Registrants(task, id) # {}
    /\ \A p, q \in Registrants(task, id) : p # q => task[p].rank # task[q].rank
    /\ LET owner == LastRegistrant(task, id) IN
         MapGet(map, id) = [providerId |-> owner,
                            upstreamHost |-> PROVIDER_CONFIG[owner].upstreamHost,
                            chatPath |-> PROVIDER_CONFIG[owner].chatPath]

\* C17: when two providers register the same model id in one build, the
\* table holds exactly one entry for the id, and it is the whole entry of the
\* provider whose registration ran last, never a mix of the two.
C17_LastWriterWins ==
  /\ \A h \in Pending : h.pc = "building" => LastWriterWins(h.map, h.task)
  /\ published.done => LastWriterWins(MODEL_PROVIDER_MAP.entries, published.task)

C17_Witness ==
  /\ published.done
  /\ {"anondrop.net", "gemini"} \subseteq Registrants(published.task, "m1")
  /\ published.task["gemini"].rank < published.task["anondrop.net"].rank
  /\ MapGet(MODEL_PROVIDER_MAP.entries, "m1").providerId = "anondrop.net"

\* What C20 asks of a map built from the callbacks task.
StaticFirst(map, task) ==
  \A s \in StaticProviders, d \in DynamicProviders :
    (task[d].pc = "done" /\ ~task[d].caught) =>
      /\ task[s].pc = "done"
      /\ task[s].rank < task[d].rank
      /\ \A id \in Range(task[s].models) \cap Range(task[d].models) :
           MapGet(map, id).providerId \in DynamicProviders

\* C20: in a build every static provider registers before any dynamic
\* provider does, whatever the order of the discovery responses, so an id
\* that a static provider and a successfully discovered dynamic provider
\* both register belongs to a dynamic provider.
C20_StaticFirst ==
  /\ \A h \in Pending : h.pc = "building" => StaticFirst(h.map, h.task)
  /\ published.done => StaticFirst(MODEL_PROVIDER_MAP.entries, published.task)

C20_Witness ==
  /\ published.done
  /\ "gpt-4o-mini" \in Range(published.task["api.airforce"].models)
  /\ "gpt-4o-mini" \in Range(published.task["anondrop.net"].models)
  /\ ~published.task["anondrop.net"].caught
  /\ published.task["gemini"].caught
  /\ MapGet(MODEL_PROVIDER_MAP.entries, "gpt-4o-mini").providerId = "anondrop.net"

-----------------------------------------------------------------------------
(* Properties of the cached table                                          *)

\* C18: once a table is published no request starts a build or issues a
\* discovery GET; a request arriving then is routed against the cached table.
C18_BuildOnce ==
  [][~MODEL_PROVIDER_MAP.isNull =>
       /\ entered' = entered
       /\ gets' = gets
       /\ arrived' # arrived =>
            /\ \A h \in BagToSet(handlers') \ Pending : h.pc # "building"
            /\ served' # served =>
                 (~served'.cold /\ served'.table \in {Null, MODEL_PROVIDER_MAP})]_vars

C18_Witness ==
  /\ ~MODEL_PROVIDER_MAP.isNull
  /\ entered = 1
  /\ arrived >= 2
  /\ ModelsAnswered
  /\ ~served.cold
  /\ served.table = MODEL_PROVIDER_MAP

-----------------------------------------------------------------------------
(* Properties of the normalizer and of termination                         *)

\* The values of a list that are present.
RECURSIVE Present(_)
Present(values) ==
  IF values = <<>> THEN <<>>
  ELSE IF Head(values) # Undefined THEN <<Head(values)>> \o Present(Tail(values))
  ELSE Present(Tail(values))

\* What an array entry carries under id, else name / id / name; a null entry
\* carries nothing.
PickIdElseName(m) == IF m.isNull THEN Undefined ELSE IF m.id # Undefined THEN m.id ELSE m.name

PickId(m) == IF m.isNull THEN Undefined ELSE m.id

PickName(m) == IF m.isNull THEN Undefined ELSE m.name

\* The ids the priority order array(id, else name) > data(id) > models(name)
\* chooses, entries lacking the field dropped.
Chosen(data) ==
  IF data.kind = "array"
    THEN Present([i \in 1..Len(data.elems) |-> PickIdElseName(data.elems[i])])
  ELSE IF data.kind = "object" /\ data.data.present /\ data.data.isArray
    THEN Present([i \in 1..Len(data.data.elems) |-> PickId(data.data.elems[i])])
  ELSE IF data.kind = "object" /\ data.models.present /\ data.models.isArray
    THEN Present([i \in 1..Len(data.models.elems) |-> PickName(data.models.elems[i])])
  ELSE <<>>

\* C16: the normalizer never throws; for every payload shape it returns the
\* ids chosen by the priority order, dropping entries that lack the field,
\* and the empty list for an unrecognized or null payload.
C16_NormalizerTotal ==
  normalized.ran => (~normalized.threw /\ normalized.models = Chosen(payload))

\* Building handlers whose GET of provider p has not settled.
Waiting(p) ==
  LET hs == {h \in Pending : h.pc = "building" /\ h.task[p].pc = "fetching"} IN
    BagCardinality([h \in hs |-> CopiesIn(h, handlers)])

\* C19: when every awaited call settles in the end, every request is
\* answered in the end; and a request waiting on a build is not answered, nor
\* does its build go on, while a discovery GET of that build is unsettled:
\* only the settling of that GET ends the wait.
C19_Termination ==
  /\ <>[](handlers = EmptyBag)
  /\ \A k \in 1..MaxRequests :
       (arrived >= k) ~> (arrived - BagCardinality(handlers) >= k)
  /\ [][\A p \in DynamicProviders :
          Waiting(p)' < Waiting(p) => \E h \in Pending : DiscoveryFetchSettles(h, p)]_vars

C19_Witness ==
  /\ handlers = EmptyBag
  /\ arrived >= 2
  /\ entered >= 2
  /\ ChatAnswered
  /\ served.cold
  /\ served.upstream # NoOutcome

====
